---- MODULE Spec2Model ----
(***************************************************************************)
(* Model of pdf_compressor.py: PDFCompressor.compress() and its three      *)
(* stages (_optimize_with_pymupdf, _cleanup_with_pikepdf,                  *)
(* _compress_with_ghostscript) over a file system of token-sequence paths. *)
(***************************************************************************)
EXTENDS FiniteSets, Integers, Sequences, TLC

(***************************************************************************)
(* Bounds of the model.                                                    *)
(***************************************************************************)
\* pages of an input document
MaxPages == 3
\* longest annotation chain on a page
MaxAnnots == 2
\* bytes the external subprocess writes to its standard error
MaxStderr == 2
\* calls of compress() one process makes one after the other
MaxCalls == 2

(***************************************************************************)
(* Paths.  A path is a sequence of tokens; "/" separates components and    *)
(* "." starts a suffix.  No token is a concatenation of other tokens, so   *)
(* two paths are the same string iff they are the same sequence.           *)
(***************************************************************************)
LastIndexOf(s, t) ==
    IF \E i \in 1..Len(s) : s[i] = t
    THEN CHOOSE i \in 1..Len(s) : s[i] = t /\ \A j \in (i+1)..Len(s) : s[j] # t
    ELSE 0

\* pathlib: Path.name, the final component
Name(p) == SubSeq(p, LastIndexOf(p, "/") + 1, Len(p))

\* pathlib: Path.parent; << >> is the current directory
Parent(p) ==
    IF LastIndexOf(p, "/") = 0 THEN << >>
    ELSE SubSeq(p, 1, LastIndexOf(p, "/") - 1)

\* every ancestor directory of p, the current directory excluded
Ancestors(p) ==
    { SubSeq(p, 1, i - 1) : i \in { j \in 2..Len(p) : p[j] = "/" } }

\* pathlib: Path.suffix, the last dot of the name unless it leads or ends it
Suffix(p) ==
    LET n == Name(p)
        i == LastIndexOf(n, ".")
    IN  IF 1 < i /\ i < Len(n) THEN SubSeq(n, i, Len(n)) ELSE << >>

\* pathlib: Path.with_suffix('')
WithSuffixEmpty(p) == SubSeq(p, 1, Len(p) - Len(Suffix(p)))

\* mutant: the optimizer serializes straight onto the output path
PymupdfTempIsOutput(out, pid) == out

\* f"{self.output_path.with_suffix('')}_{os.getpid()}_pymupdf.pdf"
PymupdfTemp(out, pid) ==
    WithSuffixEmpty(out) \o <<"_", pid, "_", "pymupdf", ".", "pdf">>

\* f"{self.output_path.with_suffix('')}_{os.getpid()}_pikepdf.pdf"
PikepdfTemp(out, pid) ==
    WithSuffixEmpty(out) \o <<"_", pid, "_", "pikepdf", ".", "pdf">>

\* f"{self.output_path.with_suffix('')}_{os.getpid()}_gs_{quality}.pdf"
GsTemp(out, pid, quality) ==
    WithSuffixEmpty(out) \o <<"_", pid, "_", "gs", "_", quality, ".", "pdf">>

(***************************************************************************)
(* The paths a caller supplies.                                            *)
(***************************************************************************)
InPdf      == <<"in", ".", "pdf">>
APdf       == <<"a", ".", "pdf">>
AOut       == <<"a", ".", "out">>
SubBPdf    == <<"d", "/", "b", ".", "pdf">>
MissingPdf == <<"missing", ".", "pdf">>

(***************************************************************************)
(* CompressionOptions (dataclass, defaults as in the source).              *)
(***************************************************************************)
DefaultOptions ==
    [ image_quality      |-> 60,
      dpi_threshold      |-> 100,
      dpi_target         |-> 72,
      to_grayscale       |-> FALSE,
      remove_metadata    |-> TRUE,
      subset_fonts       |-> TRUE,
      remove_images      |-> FALSE,
      flatten_forms      |-> TRUE,
      remove_annotations |-> TRUE,
      use_ghostscript    |-> FALSE,
      gs_quality         |-> "ebook",
      remove_unreferenced |-> FALSE ]

\* the quality presets a caller may pass, valid or not
Qualities == {"ebook", "Screen", "bogus"}

\* str.lower() on the preset names the model uses
Lower(s) ==
    CASE s = "Screen" -> "screen"
      [] s = "EBOOK"  -> "ebook"
      [] OTHER        -> s

\* presets = {"screen", "ebook", "printer", "prepress", "default"}
presets == {"screen", "ebook", "printer", "prepress", "default"}

\* the executables shutil.which() is asked for, in order
GsCandidates == <<"gs", "gswin64c", "gswin64c.exe", "gswin32c.exe">>

(***************************************************************************)
(* Documents and file contents.                                            *)
(***************************************************************************)
OrigImage == [mode |-> "orig", quality |-> 100, dpi |-> 300, gray |-> FALSE]

\* page i of an input document carries min(i-1, MaxAnnots) annotations
OrigPages ==
    [ i \in 1..MaxPages |->
        [ image  |-> OrigImage,
          annots |-> [ k \in 1..(IF i - 1 < MaxAnnots THEN i - 1 ELSE MaxAnnots) |-> k ] ] ]

\* the content of a caller's PDF stored at path p
OrigContent(p) ==
    [ origin   |-> p,
      complete |-> TRUE,
      metadata |-> TRUE,
      fonts    |-> "full",
      forms    |-> TRUE,
      pages    |-> OrigPages,
      stages   |-> << >> ]

\* what a writer that fails half-way leaves behind
Truncated(c) == [c EXCEPT !.complete = FALSE]

\* no document handle
NoDoc == [open |-> FALSE, name |-> << >>, content |-> << >>]

\* exceptions and return values of compress()
NoResult == [kind |-> "none", type |-> "", msg |-> << >>, value |-> << >>]
Raise(type, msg) == [kind |-> "raise", type |-> type, msg |-> msg, value |-> << >>]
Return(path) == [kind |-> "return", type |-> "", msg |-> << >>, value |-> path]

\* bytes.decode(errors='ignore'): undecodable bytes are dropped
RECURSIVE Decode(_)
Decode(bytes) ==
    IF bytes = << >> THEN << >>
    ELSE IF Head(bytes) = "xff" THEN Decode(Tail(bytes))
         ELSE <<Head(bytes)>> \o Decode(Tail(bytes))

\* the standard-error outputs of the external subprocess
RECURSIVE SeqsUpTo(_, _)
SeqsUpTo(S, n) ==
    IF n = 0 THEN { << >> }
    ELSE LET shorter == SeqsUpTo(S, n - 1)
         IN  shorter \cup { Append(s, x) : s \in shorter, x \in S }

StderrTexts == SeqsUpTo({"e", "xff"}, MaxStderr)

(***************************************************************************)
(* In-memory mutations of the Structural Optimizer (PyMuPDF calls).        *)
(***************************************************************************)
\* doc.scrub(metadata=True, ...)
Scrub(c) == [c EXCEPT !.metadata = FALSE]

\* doc.subset_fonts()
SubsetFonts(c) == [c EXCEPT !.fonts = "subset"]

\* doc.rewrite_images(dpi_threshold, dpi_target, quality, ..., set_to_gray)
RewriteImage(img, opts) ==
    IF img.mode = "removed" THEN img
    ELSE [ mode    |-> "rewritten",
           quality |-> IF opts.image_quality < img.quality
                       THEN opts.image_quality ELSE img.quality,
           dpi     |-> IF img.dpi > opts.dpi_threshold THEN opts.dpi_target ELSE img.dpi,
           gray    |-> img.gray \/ opts.to_grayscale ]

RewriteImages(c, opts) ==
    [c EXCEPT !.pages =
        [i \in DOMAIN c.pages |->
            [c.pages[i] EXCEPT !.image = RewriteImage(c.pages[i].image, opts)]]]

\* for page in doc: page.add_redact_annot(rect); page.apply_redactions(images=REMOVE)
RedactImages(c) ==
    [c EXCEPT !.pages =
        [i \in DOMAIN c.pages |->
            [c.pages[i] EXCEPT !.image = [@ EXCEPT !.mode = "removed"]]]]

\* doc.flatten_forms()
FlattenForms(c) == [c EXCEPT !.forms = FALSE]

\* annot.next in a page's chain; 0 is None
NextAnnot(chain, annot) ==
    LET i == CHOOSE j \in 1..Len(chain) : chain[j] = annot
    IN  IF i < Len(chain) THEN chain[i + 1] ELSE 0

\* page.delete_annot(annot)
DeleteAnnot(chain, annot) ==
    LET i == CHOOSE j \in 1..Len(chain) : chain[j] = annot
    IN  SubSeq(chain, 1, i - 1) \o SubSeq(chain, i + 1, Len(chain))

\* mutant: annot.next is read after page.delete_annot(annot), when the deleted
\* annotation is detached from the chain and has no next
DeleteLoopReadsNextLate(chain, annot) ==
    IF annot = 0 THEN chain ELSE DeleteAnnot(chain, annot)

\* while annot: nxt = annot.next; page.delete_annot(annot); annot = nxt
RECURSIVE DeleteLoop(_, _)
DeleteLoop(chain, annot) ==
    IF annot = 0 THEN chain
    ELSE LET nxt == NextAnnot(chain, annot)
         IN  DeleteLoop(DeleteAnnot(chain, annot), nxt)

\* for page in doc: annot = page.first_annot; while annot: ...
RemoveAnnotations(c) ==
    [c EXCEPT !.pages =
        [i \in DOMAIN c.pages |->
            [c.pages[i] EXCEPT !.annots =
                DeleteLoop(@, IF @ = << >> THEN 0 ELSE Head(@))]]]

\* what a stage writes: the content it read, tagged with the stage
Staged(c, tag) == [c EXCEPT !.stages = Append(@, tag), !.complete = TRUE]

(***************************************************************************)
(* State.                                                                  *)
(***************************************************************************)
VARIABLES
    fs,     \* the files on disk: path -> content
    dirs,   \* the directories on disk, the current directory excluded
    env,    \* what is installed: the pikepdf module, the executables on PATH
    run     \* per worker: the compress() call it executes

vars == <<fs, dirs, env, run>>

Workers == {1, 2}

\* the subprocess of subprocess.run(): not started, running, or exited
NoProc == [state |-> "none", rc |-> 0, stderr |-> << >>]

\* a worker that has not called compress() yet
IdleRun(pid) ==
    [ pc          |-> "idle",
      pid         |-> pid,
      input_path  |-> << >>,
      output_path |-> << >>,
      options     |-> DefaultOptions,
      tmp_path    |-> << >>,
      doc         |-> NoDoc,
      gs_cmd      |-> "",
      quality     |-> "",
      proc        |-> NoProc,
      result      |-> NoResult,
      \* history of the call, kept for the properties
      before      |-> [fs |-> << >>, dirs |-> {}],
      history     |-> << >>,
      attempted   |-> {},
      swallowed   |-> {},
      created     |-> {},
      fault       |-> FALSE,
      calls       |-> 0 ]

\* file-system primitives
Exists(f, p) == p \in DOMAIN f
CanCreate(d, p) == Parent(p) = << >> \/ Parent(p) \in d
\* mutant: a file that is already there is not written again
WriteFileOnce(f, p, c) ==
    [q \in DOMAIN f \cup {p} |-> IF q = p /\ p \notin DOMAIN f THEN c ELSE f[q]]

\* open(p, "wb") and write: the file is created or replaced
WriteFile(f, p, c) == [q \in DOMAIN f \cup {p} |-> IF q = p THEN c ELSE f[q]]
\* mutant: os.remove() is left out
RemoveFileForgotten(f, p) == f

RemoveFile(f, p) == [q \in DOMAIN f \ {p} |-> f[q]]
\* mutant: a file that exists at the destination is kept
MoveFileKeepsExisting(f, src, dst) ==
    IF src = dst THEN f
    ELSE [q \in (DOMAIN f \ {src}) \cup {dst} |->
            IF q = dst /\ dst \notin DOMAIN f THEN f[src] ELSE f[q]]

\* shutil.move(src, dst) on one file system: os.rename
MoveFile(f, src, dst) ==
    IF src = dst THEN f
    ELSE [q \in (DOMAIN f \ {src}) \cup {dst} |-> IF q = dst THEN f[src] ELSE f[q]]

\* raise: the exception propagates out of compress()
Fail(r, type, msg) == [r EXCEPT !.pc = "done", !.result = Raise(type, msg)]

\* raise, because the library, the disk or the subprocess failed on its own
Fault(r, type, msg) == [Fail(r, type, msg) EXCEPT !.fault = TRUE]

\* the call has written the file at path p
Created(r, p) == [r EXCEPT !.created = @ \cup {p}]

\* a stage of compress() begins; the artifact handed to it is noted
Enter(r, stage, artifact) ==
    [r EXCEPT !.history =
        Append(@, [stage |-> stage, artifact |-> artifact,
                   present |-> Exists(fs, artifact)])]

\* mutant: the re-distiller is tried before the pruner
AfterOptimizerSwapped(opts) ==
    IF opts.use_ghostscript THEN "gs_start"
    ELSE IF opts.remove_unreferenced THEN "pikepdf_import"
    ELSE "publish_mkdir"

\* compress(), lines 63-72: the stage that follows the optimizer
AfterOptimizer(opts) ==
    IF opts.remove_unreferenced THEN "pikepdf_import"
    ELSE IF opts.use_ghostscript THEN "gs_start"
    ELSE "publish_mkdir"

\* compress(), lines 67-72: the stage that follows the pruner
AfterPruner(opts) ==
    IF opts.use_ghostscript THEN "gs_start" ELSE "publish_mkdir"

(***************************************************************************)
(* compress()                                                              *)
(***************************************************************************)
\* PDFCompressor(input_path, output_path, options).compress() is called
Call(w, inp, out, opts) ==
    /\ run[w].pc = "idle"
    /\ run' = [run EXCEPT ![w] =
                 [@ EXCEPT !.pc = "check", !.input_path = inp, !.output_path = out,
                           !.options = opts,
                           !.before = [fs |-> fs, dirs |-> dirs]]]
    /\ UNCHANGED <<fs, dirs, env>>

\* mutant: the existence check is left out
CheckInputSkipped(w) ==
    /\ run[w].pc = "check"
    /\ run' = [run EXCEPT ![w] = [@ EXCEPT !.pc = "open"]]
    /\ UNCHANGED <<fs, dirs, env>>

\* if not self.input_path.exists(): raise FileNotFoundError
CheckInput(w) ==
    /\ run[w].pc = "check"
    /\ LET r == run[w]
       IN  run' = [run EXCEPT ![w] =
                     IF ~Exists(fs, r.input_path)
                     THEN Fail(r, "FileNotFoundError", <<"Input PDF does not exist">>)
                     ELSE [r EXCEPT !.pc = "open"]]
    /\ UNCHANGED <<fs, dirs, env>>

(***************************************************************************)
(* _optimize_with_pymupdf()                                                *)
(***************************************************************************)
\* doc = fitz.open(str(self.input_path))
OpenDoc(w) ==
    /\ run[w].pc = "open"
    /\ LET r == Enter(run[w], "optimizer", run[w].input_path)
       IN  \/ /\ Exists(fs, r.input_path)
              /\ run' = [run EXCEPT ![w] =
                           [r EXCEPT !.pc = "scrub",
                                     !.doc = [open |-> TRUE, name |-> r.input_path,
                                              content |-> fs[r.input_path]]]]
           \/ run' = [run EXCEPT ![w] =
                        IF Exists(fs, r.input_path) /\ fs[r.input_path].complete
                        THEN Fault(r, "LibraryError", <<"fitz.open">>)
                        ELSE Fail(r, "LibraryError", <<"fitz.open">>)]
    /\ UNCHANGED <<fs, dirs, env>>

\* a sub-step that is not wrapped in try/except: it leaves the document as
\* `mutated`, or its failure leaves the stage
HardStep(w, at, next, enabled, mutated) ==
    /\ run[w].pc = at
    /\ IF ~enabled
       THEN run' = [run EXCEPT ![w] = [@ EXCEPT !.pc = next]]
       ELSE LET r == [run[w] EXCEPT !.attempted = @ \cup {at}]
            IN  \/ run' = [run EXCEPT ![w] =
                             [r EXCEPT !.pc = next,
                                       !.doc = [@ EXCEPT !.content = mutated]]]
                \/ run' = [run EXCEPT ![w] = Fault(r, "LibraryError", <<at>>)]
    /\ UNCHANGED <<fs, dirs, env>>

\* a sub-step wrapped in try: ... except Exception: pass
\* mutant: the failure of a best-effort sub-step leaves the stage
SoftStepPropagates(w, at, next, enabled, mutated) ==
    HardStep(w, at, next, enabled, mutated)

SoftStep(w, at, next, enabled, mutated) ==
    /\ run[w].pc = at
    /\ IF ~enabled
       THEN run' = [run EXCEPT ![w] = [@ EXCEPT !.pc = next]]
       ELSE LET r == [run[w] EXCEPT !.attempted = @ \cup {at}]
            IN  \/ run' = [run EXCEPT ![w] =
                             [r EXCEPT !.pc = next,
                                       !.doc = [@ EXCEPT !.content = mutated]]]
                \/ run' = [run EXCEPT ![w] =
                             [r EXCEPT !.pc = next, !.swallowed = @ \cup {at}]]
    /\ UNCHANGED <<fs, dirs, env>>

\* if self.options.remove_metadata: doc.scrub(...)
ScrubStep(w) ==
    HardStep(w, "scrub", "subset_fonts", run[w].options.remove_metadata,
             Scrub(run[w].doc.content))

\* if self.options.subset_fonts: try: doc.subset_fonts() except Exception: pass
SubsetFontsStep(w) ==
    SoftStep(w, "subset_fonts", "rewrite_images", run[w].options.subset_fonts,
             SubsetFonts(run[w].doc.content))

\* mutant: recompression is attempted whatever remove_images says
RewriteImagesStepAlways(w) ==
    SoftStep(w, "rewrite_images", "remove_images", TRUE,
             RewriteImages(run[w].doc.content, run[w].options))

\* if not self.options.remove_images: try: doc.rewrite_images(...) except: pass
RewriteImagesStep(w) ==
    SoftStep(w, "rewrite_images", "remove_images", ~run[w].options.remove_images,
             RewriteImages(run[w].doc.content, run[w].options))

\* if self.options.remove_images: for page in doc: ... apply_redactions(...)
RemoveImagesStep(w) ==
    HardStep(w, "remove_images", "flatten_forms", run[w].options.remove_images,
             RedactImages(run[w].doc.content))

\* if self.options.flatten_forms: try: doc.flatten_forms() except Exception: pass
FlattenFormsStep(w) ==
    SoftStep(w, "flatten_forms", "remove_annotations", run[w].options.flatten_forms,
             FlattenForms(run[w].doc.content))

\* if self.options.remove_annotations: for page in doc: ... page.delete_annot(annot)
RemoveAnnotationsStep(w) ==
    HardStep(w, "remove_annotations", "save", run[w].options.remove_annotations,
             RemoveAnnotations(run[w].doc.content))

\* temp_file = f"..._pymupdf.pdf"; doc.save(temp_file, garbage=3, deflate=True, ...)
SaveDoc(w) ==
    /\ run[w].pc = "save"
    /\ LET r == run[w]
           temp_file == PymupdfTemp(r.output_path, r.pid)
           written == Staged(r.doc.content, "pymupdf")
       IN  \/ /\ CanCreate(dirs, temp_file)
              /\ fs' = WriteFile(fs, temp_file, written)
              /\ run' = [run EXCEPT ![w] =
                           [Created(r, temp_file) EXCEPT !.pc = "close",
                                                         !.tmp_path = temp_file]]
           \/ /\ CanCreate(dirs, temp_file)
              /\ fs' = WriteFile(fs, temp_file, Truncated(written))
              /\ run' = [run EXCEPT ![w] =
                           Fault(Created(r, temp_file), "LibraryError", <<"doc.save">>)]
           \/ /\ CanCreate(dirs, temp_file)
              /\ fs' = fs
              /\ run' = [run EXCEPT ![w] = Fault(r, "LibraryError", <<"doc.save">>)]
           \/ /\ ~CanCreate(dirs, temp_file)
              /\ fs' = fs
              /\ run' = [run EXCEPT ![w] = Fail(r, "LibraryError", <<"doc.save">>)]
    /\ UNCHANGED <<dirs, env>>

\* doc.close(); return Path(temp_file)  -- and compress() picks the next stage
CloseDoc(w) ==
    /\ run[w].pc = "close"
    /\ LET r == run[w]
       IN  run' = [run EXCEPT ![w] =
                     [r EXCEPT !.pc = AfterOptimizer(r.options),
                               !.doc = [@ EXCEPT !.open = FALSE]]]
    /\ UNCHANGED <<fs, dirs, env>>

(***************************************************************************)
(* _cleanup_with_pikepdf(input_pdf)                                        *)
(***************************************************************************)
\* mutant: without pikepdf the pruner is skipped silently
PikepdfImportOptional(w) ==
    /\ run[w].pc = "pikepdf_import"
    /\ LET r == Enter(run[w], "pruner", run[w].tmp_path)
       IN  run' = [run EXCEPT ![w] =
                     IF env.pikepdf
                     THEN [r EXCEPT !.pc = "pikepdf_save"]
                     ELSE [r EXCEPT !.pc = AfterPruner(r.options)]]
    /\ UNCHANGED <<fs, dirs, env>>

\* try: import pikepdf except ImportError: raise RuntimeError(...)
PikepdfImport(w) ==
    /\ run[w].pc = "pikepdf_import"
    /\ LET r == Enter(run[w], "pruner", run[w].tmp_path)
       IN  run' = [run EXCEPT ![w] =
                     IF env.pikepdf
                     THEN [r EXCEPT !.pc = "pikepdf_save"]
                     ELSE Fail(r, "RuntimeError", <<"pikepdf is not installed">>)]
    /\ UNCHANGED <<fs, dirs, env>>

\* with pikepdf.open(str(input_pdf)) as pdf:
\*     pdf.remove_unreferenced_resources(); pdf.save(str(output_path))
PikepdfSave(w) ==
    /\ run[w].pc = "pikepdf_save"
    /\ LET r == run[w]
           input_pdf == r.tmp_path
           output_path == PikepdfTemp(r.output_path, r.pid)
       IN  \/ /\ Exists(fs, input_pdf) /\ fs[input_pdf].complete
              /\ CanCreate(dirs, output_path)
              /\ fs' = WriteFile(fs, output_path, Staged(fs[input_pdf], "pikepdf"))
              /\ run' = [run EXCEPT ![w] =
                           [Created(r, output_path) EXCEPT !.pc = "pikepdf_remove"]]
           \/ /\ Exists(fs, input_pdf)
              /\ CanCreate(dirs, output_path)
              /\ fs' = WriteFile(fs, output_path, Truncated(Staged(fs[input_pdf], "pikepdf")))
              /\ run' = [run EXCEPT ![w] =
                           Fault(Created(r, output_path), "LibraryError", <<"pikepdf.save">>)]
           \/ /\ fs' = fs
              /\ run' = [run EXCEPT ![w] =
                           IF Exists(fs, input_pdf) /\ fs[input_pdf].complete
                           THEN Fault(r, "LibraryError", <<"pikepdf.open">>)
                           ELSE Fail(r, "LibraryError", <<"pikepdf.open">>)]
    /\ UNCHANGED <<dirs, env>>

\* mutant: the pruner removes the file it has just written
PikepdfRemoveOutput(w) ==
    /\ run[w].pc = "pikepdf_remove"
    /\ LET r == run[w]
           output_path == PikepdfTemp(r.output_path, r.pid)
       IN  /\ fs' = RemoveFile(fs, output_path)
           /\ run' = [run EXCEPT ![w] =
                        [r EXCEPT !.pc = AfterPruner(r.options),
                                  !.tmp_path = output_path]]
    /\ UNCHANGED <<dirs, env>>

\* os.remove(input_pdf); return Path(output_path)
PikepdfRemove(w) ==
    /\ run[w].pc = "pikepdf_remove"
    /\ LET r == run[w]
           input_pdf == r.tmp_path
       IN  IF Exists(fs, input_pdf)
           THEN /\ fs' = RemoveFile(fs, input_pdf)
                /\ run' = [run EXCEPT ![w] =
                             [r EXCEPT !.pc = AfterPruner(r.options),
                                       !.tmp_path = PikepdfTemp(r.output_path, r.pid)]]
           ELSE /\ fs' = fs
                /\ run' = [run EXCEPT ![w] = Fail(r, "FileNotFoundError", <<"os.remove">>)]
    /\ UNCHANGED <<dirs, env>>

(***************************************************************************)
(* _compress_with_ghostscript(input_pdf)                                   *)
(***************************************************************************)
\* for candidate in (...): if shutil.which(candidate): gs_cmd = candidate; break
Which(execs) ==
    LET found == { i \in 1..Len(GsCandidates) : GsCandidates[i] \in execs }
    IN  IF found = {} THEN ""
        ELSE GsCandidates[CHOOSE i \in found : \A j \in found : i <= j]

\* mutant: the preset is passed to the subprocess without validation
GsStartUnvalidated(w) ==
    /\ run[w].pc = "gs_start"
    /\ LET r == Enter(run[w], "redistiller", run[w].tmp_path)
           gs_cmd == Which(env.execs)
           quality == Lower(r.options.gs_quality)
       IN  run' = [run EXCEPT ![w] =
                     IF gs_cmd = ""
                     THEN Fail(r, "RuntimeError", <<"Ghostscript not found">>)
                     ELSE [r EXCEPT !.pc = "gs_wait", !.gs_cmd = gs_cmd,
                                    !.quality = quality,
                                    !.proc = [NoProc EXCEPT !.state = "running"]]]
    /\ UNCHANGED <<fs, dirs, env>>

\* locate the executable, validate the preset, start subprocess.run(args)
GsStart(w) ==
    /\ run[w].pc = "gs_start"
    /\ LET r == Enter(run[w], "redistiller", run[w].tmp_path)
           gs_cmd == Which(env.execs)
           quality == Lower(r.options.gs_quality)
       IN  run' = [run EXCEPT ![w] =
                     IF gs_cmd = ""
                     THEN Fail(r, "RuntimeError", <<"Ghostscript not found">>)
                     ELSE IF quality \notin presets
                     THEN Fail(r, "ValueError", <<"Invalid Ghostscript quality preset", quality>>)
                     ELSE [r EXCEPT !.pc = "gs_wait", !.gs_cmd = gs_cmd,
                                    !.quality = quality,
                                    !.proc = [NoProc EXCEPT !.state = "running"]]]
    /\ UNCHANGED <<fs, dirs, env>>

\* mutant: the return code is not looked at
GsResultUnchecked(r, rc, err) == [r EXCEPT !.pc = "gs_remove"]

\* result = subprocess.run(args, capture_output=True) has returned;
\* if result.returncode != 0: raise RuntimeError(f"Ghostscript failed: {stderr}")
GsResult(r, rc, err) ==
    IF rc # 0
    THEN Fault(r, "RuntimeError", <<"Ghostscript failed: ">> \o Decode(err))
    ELSE [r EXCEPT !.pc = "gs_remove"]

\* mutant: the wait is given up with the subprocess left running
GsExitAbandoned(w, rc, err) ==
    /\ run[w].pc = "gs_wait"
    /\ run' = [run EXCEPT ![w] = Fail(run[w], "TimedOut", <<"Ghostscript timed out">>)]
    /\ UNCHANGED <<fs, dirs, env>>

\* the subprocess exits with returncode rc and standard error err, having
\* written its output file (status 0) or part of it or nothing (otherwise)
GsExit(w, rc, err) ==
    /\ run[w].pc = "gs_wait"
    /\ LET r == [run[w] EXCEPT !.proc = [state |-> "exited", rc |-> rc, stderr |-> err]]
           input_pdf == r.tmp_path
           output_path == GsTemp(r.output_path, r.pid, r.quality)
       IN  \/ /\ rc = 0 /\ err = << >>
              /\ Exists(fs, input_pdf) /\ fs[input_pdf].complete
              /\ CanCreate(dirs, output_path)
              /\ fs' = WriteFile(fs, output_path, Staged(fs[input_pdf], <<"gs", r.quality>>))
              /\ run' = [run EXCEPT ![w] = GsResult(Created(r, output_path), rc, err)]
           \/ /\ rc # 0
              /\ Exists(fs, input_pdf)
              /\ CanCreate(dirs, output_path)
              /\ fs' = WriteFile(fs, output_path,
                                 Truncated(Staged(fs[input_pdf], <<"gs", r.quality>>)))
              /\ run' = [run EXCEPT ![w] = GsResult(Created(r, output_path), rc, err)]
           \/ /\ rc # 0
              /\ fs' = fs
              /\ run' = [run EXCEPT ![w] = GsResult(r, rc, err)]
    /\ UNCHANGED <<dirs, env>>

\* os.remove(input_pdf); return Path(output_path)
GsRemove(w) ==
    /\ run[w].pc = "gs_remove"
    /\ LET r == run[w]
           input_pdf == r.tmp_path
       IN  IF Exists(fs, input_pdf)
           THEN /\ fs' = RemoveFile(fs, input_pdf)
                /\ run' = [run EXCEPT ![w] =
                             [r EXCEPT !.pc = "publish_mkdir",
                                       !.tmp_path = GsTemp(r.output_path, r.pid, r.quality)]]
           ELSE /\ fs' = fs
                /\ run' = [run EXCEPT ![w] = Fail(r, "FileNotFoundError", <<"os.remove">>)]
    /\ UNCHANGED <<dirs, env>>

(***************************************************************************)
(* compress(): publish                                                     *)
(***************************************************************************)
\* final_path = self.output_path; final_path.parent.mkdir(parents=True, exist_ok=True)
PublishMkdir(w) ==
    /\ run[w].pc = "publish_mkdir"
    /\ dirs' = dirs \cup Ancestors(run[w].output_path)
    /\ LET r == Enter(run[w], "publish", run[w].tmp_path)
       IN  run' = [run EXCEPT ![w] = [r EXCEPT !.pc = "publish_move"]]
    /\ UNCHANGED <<fs, env>>

\* shutil.move(tmp_path, final_path); return final_path
PublishMove(w) ==
    /\ run[w].pc = "publish_move"
    /\ LET r == run[w]
       IN  IF Exists(fs, r.tmp_path)
           THEN /\ fs' = MoveFile(fs, r.tmp_path, r.output_path)
                /\ run' = [run EXCEPT ![w] =
                             [r EXCEPT !.pc = "done", !.result = Return(r.output_path)]]
           ELSE /\ fs' = fs
                /\ run' = [run EXCEPT ![w] = Fail(r, "FileNotFoundError", <<"shutil.move">>)]
    /\ UNCHANGED <<dirs, env>>

(***************************************************************************)
(* Specification: one compress() call in one process.                      *)
(***************************************************************************)
\* every setting of the five sub-step flags of the optimizer
SubStepOptions ==
    { [DefaultOptions EXCEPT
          !.remove_metadata = b[1], !.subset_fonts = b[2], !.remove_images = b[3],
          !.flatten_forms = b[4], !.remove_annotations = b[5]]
      : b \in [1..5 -> BOOLEAN] }

\* every setting of the two stage flags; the preset varies where it is read
StageOptions ==
    { o \in { [base EXCEPT !.use_ghostscript = g, !.remove_unreferenced = u,
                           !.gs_quality = q]
              : base \in { DefaultOptions,
                           [DefaultOptions EXCEPT !.remove_images = TRUE,
                                                  !.subset_fonts = FALSE] },
                g \in BOOLEAN, u \in BOOLEAN, q \in Qualities }
      : o.use_ghostscript \/ o.gs_quality = DefaultOptions.gs_quality }

\* other values of the image fields, with either image mode
ImageOptions ==
    { [DefaultOptions EXCEPT
          !.image_quality = 30, !.dpi_threshold = 400, !.dpi_target = 50,
          !.to_grayscale = TRUE, !.remove_images = m,
          !.remove_metadata = FALSE, !.subset_fonts = FALSE,
          !.flatten_forms = FALSE, !.remove_annotations = FALSE]
      : m \in BOOLEAN }

OptionSets == SubStepOptions \cup StageOptions \cup ImageOptions

InputPaths == {InPdf, APdf, MissingPdf}
OutputPaths == {APdf, SubBPdf}

\* the environments: pikepdf importable or not, executables on PATH
Envs ==
    [ pikepdf : BOOLEAN,
      execs : { {}, {"gswin64c", "gswin32c.exe"} } ]

\* the disks a call may start from: in.pdf is there, a.pdf and d/ may be
InitDisk ==
    /\ \E present \in SUBSET {APdf} :
          fs = [p \in {InPdf} \cup present |-> OrigContent(p)]
    /\ dirs \in { {}, {<<"d">>} }

Init ==
    /\ InitDisk
    /\ env \in Envs
    /\ run = [w \in Workers |-> IdleRun("1")]

Step(w) ==
    \/ CheckInput(w)
    \/ OpenDoc(w)
    \/ ScrubStep(w)
    \/ SubsetFontsStep(w)
    \/ RewriteImagesStep(w)
    \/ RemoveImagesStep(w)
    \/ FlattenFormsStep(w)
    \/ RemoveAnnotationsStep(w)
    \/ SaveDoc(w)
    \/ CloseDoc(w)
    \/ PikepdfImport(w)
    \/ PikepdfSave(w)
    \/ PikepdfRemove(w)
    \/ GsStart(w)
    \/ \E rc \in {0, 1}, err \in StderrTexts : GsExit(w, rc, err)
    \/ GsRemove(w)
    \/ PublishMkdir(w)
    \/ PublishMove(w)

\* the caller picks the paths and the options
StartCall(w) ==
    /\ run[w].pc = "idle"
    /\ \E inp \in InputPaths, out \in OutputPaths, opts \in OptionSets :
          Call(w, inp, out, opts)

Next ==
    \/ StartCall(1)
    \/ Step(1)

Spec == Init /\ [][Next]_vars

\* the steps compress() takes by itself; at subprocess.run() it takes none
\* until the subprocess exits, which is for the subprocess to do
Progress(w) == run[w].pc # "gs_wait" /\ Step(w)

\* the options that enable the re-distiller
LiveOptions == { o \in StageOptions : o.use_ghostscript /\ ~o.remove_images }

\* in.pdf and the directory d are there; the environments vary
InitLive ==
    /\ fs = [p \in {InPdf} |-> OrigContent(p)]
    /\ dirs = {<<"d">>}
    /\ env \in Envs
    /\ run = [w \in Workers |-> IdleRun("1")]

StartCallLive(w) ==
    /\ run[w].pc = "idle"
    /\ \E out \in OutputPaths, opts \in LiveOptions : Call(w, InPdf, out, opts)

NextLive ==
    \/ StartCallLive(1)
    \/ Step(1)

\* one call with the re-distiller enabled, whose own steps are taken when they
\* can be; nothing makes the external subprocess exit
SpecLive == InitLive /\ [][NextLive]_vars /\ WF_vars(Progress(1))

(***************************************************************************)
(* Specification: two compress() calls that run concurrently, as threads   *)
(* of one process or in two processes, on different output paths.          *)
(***************************************************************************)
\* the optimizer reduced to its image pass, alone or with both optional stages
ConcOptions ==
    { [DefaultOptions EXCEPT
          !.remove_metadata = FALSE, !.subset_fonts = FALSE, !.flatten_forms = FALSE,
          !.remove_annotations = FALSE,
          !.remove_unreferenced = both, !.use_ghostscript = both]
      : both \in BOOLEAN }

\* worker 1 writes a.pdf; worker 2 writes another path
ConcOutputs(w) == IF w = 1 THEN {APdf} ELSE {AOut, SubBPdf}

InitConc ==
    /\ fs = [p \in {InPdf} |-> OrigContent(p)]
    /\ dirs = {<<"d">>}
    /\ env = [pikepdf |-> TRUE, execs |-> {"gs"}]
    /\ \E pid2 \in {"1", "2"} :
          run = [w \in Workers |-> IdleRun(IF w = 1 THEN "1" ELSE pid2)]

StartCallConc(w) ==
    /\ run[w].pc = "idle"
    /\ \E out \in ConcOutputs(w), opts \in ConcOptions : Call(w, InPdf, out, opts)

NextConc == \E w \in Workers : StartCallConc(w) \/ Step(w)

SpecConc == InitConc /\ [][NextConc]_vars

(***************************************************************************)
(* Calls of compress() one after the other in one process: the process     *)
(* identifier, and with it the names of the artifacts of an output stem,   *)
(* are the same in every call, and the disk keeps what a call left.        *)
(***************************************************************************)
\* both optional stages on or off; one bad preset when they are on
SeqOptions ==
    { o \in { [DefaultOptions EXCEPT
                  !.subset_fonts = FALSE, !.flatten_forms = FALSE,
                  !.remove_annotations = FALSE,
                  !.use_ghostscript = g, !.remove_unreferenced = g, !.gs_quality = q]
              : g \in BOOLEAN, q \in {"ebook", "bogus"} }
      : o.use_ghostscript \/ o.gs_quality = DefaultOptions.gs_quality }

InitSeq ==
    /\ fs = [p \in {InPdf, APdf} |-> OrigContent(p)]
    /\ dirs = {}
    /\ env = [pikepdf |-> TRUE, execs |-> {"gs"}]
    /\ run = [w \in Workers |-> IdleRun("1")]

\* two output paths with the same stem, hence the same artifact names
StartCallSeq(w) ==
    /\ run[w].pc = "idle"
    /\ \E inp \in {InPdf, APdf}, out \in {APdf, AOut}, opts \in SeqOptions :
          Call(w, inp, out, opts)

\* compress() has returned or raised and the caller goes on to the next call
NextCall(w) ==
    /\ run[w].pc = "done"
    /\ run[w].calls + 1 < MaxCalls
    /\ run' = [run EXCEPT ![w] = [IdleRun(@.pid) EXCEPT !.calls = run[w].calls + 1]]
    /\ UNCHANGED <<fs, dirs, env>>

NextSeq ==
    \/ StartCallSeq(1)
    \/ Step(1)
    \/ NextCall(1)

SpecSeq == InitSeq /\ [][NextSeq]_vars

(***************************************************************************)
(* Properties.                                                             *)
(***************************************************************************)
\* the file at p on disk f: a set with its content, empty when absent
FileAt(f, p) == IF p \in DOMAIN f THEN {f[p]} ELSE {}

Started(w) == run[w].pc # "idle"
Done(w) == run[w].pc = "done"
Raised(w) == run[w].result.kind = "raise"
Returned(w) == run[w].result.kind = "return"

\* the stages a call has entered, in order
StagesOf(w) == [i \in 1..Len(run[w].history) |-> run[w].history[i].stage]

IsPrefix(s, t) == Len(s) <= Len(t) /\ \A i \in 1..Len(s) : s[i] = t[i]

\* the order of stages the options ask for
ExpectedStages(opts) ==
    <<"optimizer">>
    \o (IF opts.remove_unreferenced THEN <<"pruner">> ELSE << >>)
    \o (IF opts.use_ghostscript THEN <<"redistiller">> ELSE << >>)
    \o <<"publish">>

\* the sub-steps of the optimizer the options enable
EnabledSubSteps(opts) ==
    (IF opts.remove_metadata THEN {"scrub"} ELSE {})
    \cup (IF opts.subset_fonts THEN {"subset_fonts"} ELSE {})
    \cup (IF opts.remove_images THEN {"remove_images"} ELSE {"rewrite_images"})
    \cup (IF opts.flatten_forms THEN {"flatten_forms"} ELSE {})
    \cup (IF opts.remove_annotations THEN {"remove_annotations"} ELSE {})

BestEffortSubSteps == {"subset_fonts", "rewrite_images", "flatten_forms"}

\* the document the optimizer serializes when the sub-steps in skip do nothing
OptimizedSkipping(c, opts, skip) ==
    LET On(step) == step \in EnabledSubSteps(opts) \ skip
        c1 == IF On("scrub") THEN Scrub(c) ELSE c
        c2 == IF On("subset_fonts") THEN SubsetFonts(c1) ELSE c1
        c3 == IF On("rewrite_images") THEN RewriteImages(c2, opts) ELSE c2
        c4 == IF On("remove_images") THEN RedactImages(c3) ELSE c3
        c5 == IF On("flatten_forms") THEN FlattenForms(c4) ELSE c4
        c6 == IF On("remove_annotations") THEN RemoveAnnotations(c5) ELSE c5
    IN  Staged(c6, "pymupdf")

\* the dependencies of the optional stages the options ask for
PrunerUnavailable(w) == run[w].options.remove_unreferenced /\ ~env.pikepdf
RedistillerUnavailable(w) ==
    run[w].options.use_ghostscript /\ \A i \in 1..Len(GsCandidates) : GsCandidates[i] \notin env.execs
LastStage(w) ==
    IF run[w].history = << >> THEN "" ELSE run[w].history[Len(run[w].history)].stage

\* C1: until compress() has returned, and so whenever it raises, the file at
\* the output path is what it was when compress() was called
C1_OutputWrittenOnlyByPublish ==
    \A w \in Workers :
        (Started(w) /\ ~Returned(w)) =>
            FileAt(fs, run[w].output_path) = FileAt(run[w].before.fs, run[w].output_path)

\* C1 witness: the re-distiller's subprocess failed after the pruner ran, and
\* a file was at the output path before the call
C1_Witness ==
    /\ Raised(1) /\ run[1].proc.rc # 0
    /\ StagesOf(1) = <<"optimizer", "pruner", "redistiller">>
    /\ Exists(run[1].before.fs, run[1].output_path)

\* C2: with a missing input, compress() raises FileNotFoundError and has
\* entered no stage, opened no document, and changed no file and no directory
C2_MissingInputFailsFirst ==
    \A w \in Workers :
        (Done(w) /\ ~Exists(run[w].before.fs, run[w].input_path)) =>
            /\ Raised(w) /\ run[w].result.type = "FileNotFoundError"
            /\ run[w].history = << >>
            /\ run[w].doc = NoDoc
            /\ run[w].created = {}
            /\ fs = run[w].before.fs
            /\ dirs = run[w].before.dirs

\* C2 witness: a call with both optional stages on a missing input, into a
\* directory that does not exist, has ended
C2_Witness ==
    /\ Done(1) /\ run[1].input_path = MissingPdf /\ run[1].output_path = SubBPdf
    /\ run[1].options.use_ghostscript /\ run[1].options.remove_unreferenced
    /\ <<"d">> \notin dirs

\* C3: when compress() has returned, no artifact the call created is on disk,
\* and the only path the call added to the disk is the output path
C3_NoArtifactAfterSuccess ==
    \A w \in Workers :
        Returned(w) =>
            /\ \A p \in run[w].created : ~Exists(fs, p)
            /\ Exists(fs, run[w].output_path)
            /\ DOMAIN fs \ DOMAIN run[w].before.fs \subseteq {run[w].output_path}

\* C3 witness: a call with both optional stages has returned, having created
\* three artifacts
C3_Witness ==
    /\ Returned(1) /\ Cardinality(run[1].created) = 3

\* C4: the caller's input file is what it was when compress() was called
C4_InputNeverModified ==
    \A w \in Workers :
        Started(w) =>
            FileAt(fs, run[w].input_path) = FileAt(run[w].before.fs, run[w].input_path)

\* C5: when the input exists, the dependencies of the enabled stages are
\* there and neither the library, the disk nor the subprocess fails on its
\* own, compress() returns, also into a directory that did not exist
C5_SucceedsIntoMissingDirectory ==
    \A w \in Workers :
        ( /\ Done(w)
          /\ Exists(run[w].before.fs, run[w].input_path)
          /\ ~PrunerUnavailable(w) /\ ~RedistillerUnavailable(w)
          /\ run[w].options.use_ghostscript => Lower(run[w].options.gs_quality) \in presets
          /\ ~run[w].fault )
        => /\ Returned(w)
           /\ Parent(run[w].output_path) \in dirs \cup {<< >>}
           /\ Exists(fs, run[w].output_path)

\* C6: the stages a call has entered are a prefix of optimizer, pruner (if
\* remove_unreferenced), re-distiller (if use_ghostscript), publish; a call
\* that returns has entered all of them; a call on an existing input enters
\* the optimizer; and the artifact handed to a stage was on disk when it began
C6_StagesInOrder ==
    \A w \in Workers :
        /\ IsPrefix(StagesOf(w), ExpectedStages(run[w].options))
        /\ Returned(w) => StagesOf(w) = ExpectedStages(run[w].options)
        /\ (Done(w) /\ Exists(run[w].before.fs, run[w].input_path)) => run[w].history # << >>
        /\ \A i \in 1..Len(run[w].history) : run[w].history[i].present

\* C6 witness: a call has entered all four stages and returned
C6_Witness ==
    /\ Returned(1)
    /\ StagesOf(1) = <<"optimizer", "pruner", "redistiller", "publish">>

\* C7: when a requested optional stage lacks its dependency, compress()
\* never returns a path, the output path keeps its file, publish is never
\* entered, and the stage that lacks the dependency, once entered, raises the
\* configuration error (RuntimeError "... not installed" / "... not found")
C7_MissingDependencyIsHardFailure ==
    \A w \in Workers :
        (Started(w) /\ (PrunerUnavailable(w) \/ RedistillerUnavailable(w))) =>
            /\ ~Returned(w)
            /\ \A i \in 1..Len(run[w].history) : run[w].history[i].stage # "publish"
            /\ FileAt(fs, run[w].output_path) = FileAt(run[w].before.fs, run[w].output_path)
            /\ (Done(w) /\ LastStage(w) = "pruner" /\ PrunerUnavailable(w)) =>
                  run[w].result = Raise("RuntimeError", <<"pikepdf is not installed">>)
            /\ (Done(w) /\ LastStage(w) = "redistiller" /\ RedistillerUnavailable(w)) =>
                  run[w].result = Raise("RuntimeError", <<"Ghostscript not found">>)

\* C7 witness: the pruner ran, the re-distiller found no executable and the
\* call has ended
C7_Witness ==
    /\ Done(1) /\ RedistillerUnavailable(1)
    /\ StagesOf(1) = <<"optimizer", "pruner", "redistiller">>

\* C8: when the subprocess has exited with a non-zero status, compress() has
\* raised RuntimeError "Ghostscript failed: " followed by the decodable bytes
\* of its standard error, and the artifact handed to the re-distiller is on
\* disk; that artifact is off the disk only after an exit with status zero
C8_FailedSubprocessKeepsInput ==
    \A w \in Workers :
        /\ (run[w].proc.state = "exited" /\ run[w].proc.rc # 0) =>
              /\ run[w].result =
                    Raise("RuntimeError",
                          <<"Ghostscript failed: ">>
                          \o SelectSeq(run[w].proc.stderr, LAMBDA b : b # "xff"))
              /\ Exists(fs, run[w].tmp_path)
        /\ \A i \in 1..Len(run[w].history) :
              (run[w].history[i].stage = "redistiller"
               /\ ~Exists(fs, run[w].history[i].artifact)) =>
                  (run[w].proc.state = "exited" /\ run[w].proc.rc = 0)

\* C8 witness: the subprocess failed with a standard error that holds an
\* undecodable byte, on the pruner's artifact
C8_Witness ==
    /\ run[1].proc.state = "exited" /\ run[1].proc.rc # 0
    /\ run[1].proc.stderr = <<"e", "xff">>
    /\ run[1].tmp_path = PikepdfTemp(run[1].output_path, run[1].pid)

\* C9: two calls that are both under way, with different output paths, have
\* written no intermediate artifact path in common
C9_ArtifactsDisjoint ==
    \A w1 \in Workers, w2 \in Workers :
        (w1 # w2 /\ Started(w1) /\ ~Done(w1) /\ Started(w2) /\ ~Done(w2)
         /\ run[w1].output_path # run[w2].output_path) =>
            run[w1].created \cap run[w2].created = {}

\* C10: no exception of compress() comes from a best-effort sub-step; when
\* the optimizer has serialized the document, every enabled sub-step was
\* attempted and the artifact is the document with the sub-steps that failed
\* skipped
C10_BestEffortFailuresSwallowed ==
    \A w \in Workers :
        /\ run[w].swallowed \subseteq BestEffortSubSteps
        /\ Raised(w) => \A s \in BestEffortSubSteps : run[w].result.msg # <<s>>
        /\ run[w].pc = "close" =>
              /\ run[w].attempted = EnabledSubSteps(run[w].options)
              /\ FileAt(fs, run[w].tmp_path) =
                    { OptimizedSkipping(run[w].before.fs[run[w].input_path],
                                        run[w].options, run[w].swallowed) }

\* C10 witness: font subsetting and form flattening both failed, image
\* removal and annotation removal ran, and the artifact is written
C10_Witness ==
    /\ run[1].pc = "close"
    /\ run[1].swallowed = {"subset_fonts", "flatten_forms"}
    /\ {"remove_images", "remove_annotations"} \subseteq run[1].attempted

\* C11: no exception of compress() comes from a sub-step of the optimizer,
\* metadata scrub, image removal and annotation removal included: a
\* sub-step that was attempted never ends the stage, so the stage goes on
\* to serialize the document
C11_NoSubStepAbortsStage ==
    \A w \in Workers :
        Raised(w) =>
            \A s \in run[w].attempted :
                run[w].result.msg # <<s>>

\* C12: with remove_annotations set, the document the optimizer serialized,
\* and the file a returning call published, has no annotation on any page,
\* whatever the length of the chains of the input
C12_NoAnnotationLeft ==
    \A w \in Workers :
        run[w].options.remove_annotations =>
            /\ run[w].pc = "close" =>
                  \A c \in FileAt(fs, run[w].tmp_path) :
                      \A i \in DOMAIN c.pages : c.pages[i].annots = << >>
            /\ Returned(w) =>
                  \A c \in FileAt(fs, run[w].output_path) :
                      \A i \in DOMAIN c.pages : c.pages[i].annots = << >>

\* C12 witness: the input had a page with a chain of at least two
\* annotations, and the optimizer has serialized the document
C12_Witness ==
    /\ run[1].pc = "close"
    /\ run[1].options.remove_annotations
    /\ Exists(fs, run[1].tmp_path)
    /\ \E i \in DOMAIN run[1].before.fs[run[1].input_path].pages :
          Len(run[1].before.fs[run[1].input_path].pages[i].annots) >= 2

\* the intermediate artifacts of call w that are on disk
LiveArtifacts(w) == run[w].created \cap DOMAIN fs

\* the positions of compress() between two stages
StageBoundaries == {"pikepdf_import", "gs_start", "publish_mkdir", "publish_move"}

\* C13: between two stages the one artifact of the call on disk is the
\* complete file handed to the next stage; when a stage is about to delete
\* its input, its own complete output is on disk beside it; the call returns
\* with the last artifact moved to the output path
C13_OneLiveArtifact ==
    \A w \in Workers :
        /\ run[w].pc \in StageBoundaries =>
              /\ LiveArtifacts(w) = {run[w].tmp_path}
              /\ fs[run[w].tmp_path].complete
        /\ run[w].pc = "pikepdf_remove" =>
              /\ LiveArtifacts(w) =
                    {run[w].tmp_path, PikepdfTemp(run[w].output_path, run[w].pid)}
              /\ fs[PikepdfTemp(run[w].output_path, run[w].pid)].complete
        /\ run[w].pc = "gs_remove" =>
              /\ LiveArtifacts(w) =
                    {run[w].tmp_path,
                     GsTemp(run[w].output_path, run[w].pid, run[w].quality)}
              /\ fs[GsTemp(run[w].output_path, run[w].pid, run[w].quality)].complete
        /\ Returned(w) =>
              /\ LiveArtifacts(w) = {}
              /\ Exists(fs, run[w].output_path)

\* C13 witness: the pruner and the re-distiller have both run and the
\* re-distiller's artifact waits for the publish step
C13_Witness ==
    /\ run[1].pc = "publish_mkdir"
    /\ StagesOf(1) = <<"optimizer", "pruner", "redistiller">>
    /\ LiveArtifacts(1) = {GsTemp(run[1].output_path, run[1].pid, run[1].quality)}
    /\ Cardinality(run[1].created) = 3

\* the stages whose writers the options put on the published file, in order
ExpectedTags(opts) ==
    <<"pymupdf">>
    \o (IF opts.remove_unreferenced THEN <<"pikepdf">> ELSE << >>)
    \o (IF opts.use_ghostscript THEN << <<"gs", Lower(opts.gs_quality)>> >> ELSE << >>)

\* C14: a call that returned returns its output path, its last artifact is
\* no longer at its temporary path, and the file at the output path is the
\* complete document made from this call's input by the optimizer, then the
\* pruner and the re-distiller when enabled, whatever was at the output
\* path before
C14_PublishedIsLastArtifact ==
    \A w \in Workers :
        Returned(w) =>
            /\ run[w].pc = "done"
            /\ run[w].result.value = run[w].output_path
            /\ ~Exists(fs, run[w].tmp_path)
            /\ Exists(fs, run[w].output_path)
            /\ fs[run[w].output_path].complete
            /\ fs[run[w].output_path].origin = run[w].input_path
            /\ fs[run[w].output_path].stages = ExpectedTags(run[w].options)

\* C14 witness: the call returned, a different file was at the output path
\* when it was called, and the published file comes from the re-distiller
\* that ran after the pruner
C14_Witness ==
    /\ Returned(1)
    /\ run[1].output_path \in DOMAIN run[1].before.fs
    /\ run[1].output_path # run[1].input_path
    /\ Len(fs[run[1].output_path].stages) = 3

\* the re-distiller of call w has been entered
RedistillerEntered(w) ==
    \E i \in 1..Len(run[w].history) : run[w].history[i].stage = "redistiller"

\* C15 as stated: once the re-distiller has been entered with a configured
\* preset that is not a member of the set, the call fails with the
\* invalid-argument error and no subprocess is started
C15_NonMemberPresetRejected ==
    \A w \in Workers :
        (RedistillerEntered(w) /\ run[w].options.gs_quality \notin presets) =>
            /\ Raised(w) /\ run[w].result.type = "ValueError"
            /\ run[w].proc.state = "none"

\* C15 amended: no subprocess is started with a preset outside the set; when
\* the re-distiller has been entered, an executable is found and the
\* lower-cased preset is not a member, the call fails with the
\* invalid-argument error, without a subprocess and with the stage's input
\* artifact kept; a preset that is a member once lower-cased is not
\* rejected; without an executable the failure is the missing dependency
C15_LowerCasedPresetValidated ==
    \A w \in Workers :
        /\ run[w].proc.state # "none" => run[w].quality \in presets
        /\ RedistillerEntered(w) =>
              LET entry == run[w].history[Len(run[w].history)]
              IN  /\ (Which(env.execs) # ""
                      /\ Lower(run[w].options.gs_quality) \notin presets) =>
                        /\ Raised(w) /\ run[w].result.type = "ValueError"
                        /\ run[w].proc.state = "none"
                        /\ entry.stage = "redistiller"
                        /\ Exists(fs, entry.artifact)
                  /\ (Which(env.execs) # ""
                      /\ Lower(run[w].options.gs_quality) \in presets) =>
                        /\ run[w].proc.state # "none"
                        /\ run[w].quality = Lower(run[w].options.gs_quality)
                        /\ Raised(w) => run[w].result.type # "ValueError"
                  /\ Which(env.execs) = "" =>
                        /\ Raised(w)
                        /\ run[w].result.msg = <<"Ghostscript not found">>
                        /\ run[w].proc.state = "none"

\* C15 witness: after the pruner, the re-distiller found an executable and
\* rejected the preset; the pruner's artifact is still there
C15_Witness ==
    /\ Raised(1) /\ run[1].result.type = "ValueError"
    /\ RedistillerEntered(1)
    /\ run[1].tmp_path = PikepdfTemp(run[1].output_path, run[1].pid)
    /\ Exists(fs, run[1].tmp_path)

\* the options with the image quality, DPI and grayscale fields at their defaults
WithDefaultImageFields(opts) ==
    [opts EXCEPT !.image_quality = DefaultOptions.image_quality,
                 !.dpi_threshold = DefaultOptions.dpi_threshold,
                 !.dpi_target = DefaultOptions.dpi_target,
                 !.to_grayscale = DefaultOptions.to_grayscale]

\* C16: once the optimizer is past its image step, exactly one of the two
\* image passes was attempted, the one remove_images selects; with
\* remove_images every page of the serialized document has its image
\* removed and the document is the one the default image fields give;
\* without it no page is redacted
C16_ImageModeByRemoveImages ==
    \A w \in Workers :
        /\ ~({"rewrite_images", "remove_images"} \subseteq run[w].attempted)
        /\ run[w].pc \in {"flatten_forms", "remove_annotations", "save", "close"} =>
              run[w].attempted \cap {"rewrite_images", "remove_images"} =
                 (IF run[w].options.remove_images
                  THEN {"remove_images"} ELSE {"rewrite_images"})
        /\ run[w].pc = "close" =>
              \A c \in FileAt(fs, run[w].tmp_path) :
                 IF run[w].options.remove_images
                 THEN /\ \A i \in DOMAIN c.pages :
                            c.pages[i].image = [OrigImage EXCEPT !.mode = "removed"]
                      /\ c = OptimizedSkipping(
                                 run[w].before.fs[run[w].input_path],
                                 WithDefaultImageFields(run[w].options),
                                 run[w].swallowed)
                 ELSE \A i \in DOMAIN c.pages :
                         c.pages[i].image =
                            IF "rewrite_images" \in run[w].swallowed
                            THEN OrigImage
                            ELSE RewriteImage(OrigImage, run[w].options)

\* C16 witness: image removal ran with quality, DPI and grayscale fields
\* away from their defaults, and the document is serialized
C16_Witness ==
    /\ run[1].pc = "close"
    /\ run[1].options.remove_images
    /\ run[1].options # WithDefaultImageFields(run[1].options)
    /\ Exists(fs, run[1].tmp_path)

\* C17: the document handle the optimizer opened is closed once the optimizer
\* is left: none is open while the pruner, the re-distiller or the publish
\* step runs, nor when compress() has returned or raised
C17_HandleClosedOnEveryExit ==
    \A w \in Workers :
        run[w].pc \in {"pikepdf_import", "pikepdf_save", "pikepdf_remove",
                       "gs_start", "gs_wait", "gs_remove",
                       "publish_mkdir", "publish_move", "done"} =>
            ~run[w].doc.open

\* C18 as stated: a call that waits for the subprocess always comes to an end
C18_NeverBlocksForever ==
    \A w \in {1} : (run[w].pc = "gs_wait") ~> Done(w)

\* C18 amended: no timeout ends the wait; while the subprocess runs the call
\* stays in subprocess.run() without a result, the call goes on or ends only
\* with the subprocess exited, and no exception of compress() is a timeout
C18_BlocksUntilSubprocessExits ==
    \A w \in Workers :
        /\ run[w].proc.state = "running" <=> run[w].pc = "gs_wait"
        /\ run[w].pc = "gs_wait" => run[w].result = NoResult
        /\ run[w].pc \in {"gs_remove", "publish_mkdir", "publish_move", "done"} =>
              run[w].proc.state \in {"none", "exited"}
        /\ Raised(w) => run[w].result.type # "TimedOut"
        /\ (Done(w) /\ RedistillerEntered(w) /\ run[w].gs_cmd # "") =>
              run[w].proc.state = "exited"

\* C18 witness: the subprocess is running and the call waits in subprocess.run()
C18_Witness ==
    /\ run[1].pc = "gs_wait"
    /\ run[1].proc.state = "running"
    /\ run[1].gs_cmd = "gswin64c"

\* the document the stages of a call make of c, the sub-steps in skip skipped
Published(c, opts, skip) ==
    LET c1 == OptimizedSkipping(c, opts, skip)
        c2 == IF opts.remove_unreferenced THEN Staged(c1, "pikepdf") ELSE c1
    IN  IF opts.use_ghostscript
        THEN Staged(c2, <<"gs", Lower(opts.gs_quality)>>) ELSE c2

\* the artifacts of earlier calls that were on disk when call w began, at
\* paths call w has written since
StaleRewritten(w) == run[w].created \cap DOMAIN run[w].before.fs

\* C19: in a sequence of calls, the file a returning call published is the
\* document its own stages made of the input as it was when the call began,
\* and a call raises only for a reason that has nothing to do with the
\* artifacts on disk: a failure of the library, the disk or the subprocess,
\* a missing input, or an invalid preset
C19_StaleArtifactsHarmless ==
    \A w \in Workers :
        /\ Returned(w) =>
              FileAt(fs, run[w].output_path) =
                 { Published(run[w].before.fs[run[w].input_path],
                             run[w].options, run[w].swallowed) }
        /\ Raised(w) =>
              \/ run[w].fault
              \/ ~Exists(run[w].before.fs, run[w].input_path)
              \/ PrunerUnavailable(w)
              \/ RedistillerUnavailable(w)
              \/ /\ run[w].options.use_ghostscript
                 /\ Lower(run[w].options.gs_quality) \notin presets
                 /\ run[w].result.type = "ValueError"

\* C19 witness: a later call returned after writing over an artifact that
\* an earlier call had left, one made from another input or cut short
C19_Witness ==
    /\ Returned(1)
    /\ run[1].calls >= 1
    /\ \E p \in StaleRewritten(1) :
          \/ run[1].before.fs[p].origin # run[1].input_path
          \/ ~run[1].before.fs[p].complete

====
